---- MODULE Spec2Model ----
(***************************************************************************)
(* Usage metering and billing-cycle gate of the AutoSEO service            *)
(* (src/autoseo-service/models.py, auth.py, app.py).                       *)
(*                                                                         *)
(* The persistent store is the three tables tenants, usage_logs and        *)
(* billing_history.  Every execute_query call is one committed round trip  *)
(* to the store, so a handler is a sequence of atomic steps; requests run  *)
(* as processes whose steps interleave.  Instants are dates written as     *)
(* the integer YYYYMMDD, which orders like the ISO strings the code        *)
(* stores; the clock resolution of the model is one day.                   *)
(***************************************************************************)
EXTENDS Integers, Sequences, FiniteSets, TLC

VARIABLES now, tenants, usage_logs, billing_history, procs

vars == <<now, tenants, usage_logs, billing_history, procs>>

\* ------------------------------------------------------------------ bounds
NumProcs == 2
MaxEvents == 3
MaxHistory == 2
FreeRateLimit == 2
MaxChargeUsage == 1210

\* ---------------------------------------------------------------- calendar
MkDate(y, m, d) == y * 10000 + m * 100 + d
YearOf(date) == date \div 10000
MonthOf(date) == (date \div 100) % 100
DayOf(date) == date % 100

IsLeap(y) == (y % 4 = 0 /\ y % 100 # 0) \/ y % 400 = 0

\* calendar.monthrange(year, month)[1]
monthrange(y, m) ==
    IF m = 2 THEN (IF IsLeap(y) THEN 29 ELSE 28)
    ELSE IF m \in {4, 6, 9, 11} THEN 30 ELSE 31

ValidDate(y, m, d) == m \in 1..12 /\ d >= 1 /\ d <= monthrange(y, m)

RECURSIVE DaysBeforeMonth(_, _)
DaysBeforeMonth(y, m) ==
    IF m <= 1 THEN 0 ELSE DaysBeforeMonth(y, m - 1) + monthrange(y, m - 1)

\* date.toordinal(): the proleptic Gregorian day number
toordinal(date) ==
    LET y == YearOf(date) - 1
    IN  365 * y + (y \div 4) - (y \div 100) + (y \div 400)
        + DaysBeforeMonth(YearOf(date), MonthOf(date)) + DayOf(date)

\* isoformat()[:7] and strftime('%Y-%m'): the YYYY-MM period key of an instant
CycleKey(date) == date \div 100

\* the instants at which the program samples the clock
ClockDates ==
    { MkDate(2024, 1, 15), MkDate(2024, 2, 1), MkDate(2024, 2, 15),
      MkDate(2024, 2, 29), MkDate(2024, 4, 30) }

\* -------------------------------------------------------------- the tenants
Unknown == "unknown"
BillingCycles == {"monthly", "yearly"}
Procs == 1..NumProcs

SubscriptionStatuses == {"active", "past_due", "canceled"}

\* an advance that keeps the day of the start whatever the target month
get_next_billing_date_unclamped(cycle_start, cycle_type) ==
    IF cycle_type = "monthly"
    THEN LET m0 == MonthOf(cycle_start) + 1
             month == IF m0 > 12 THEN 1 ELSE m0
             year == IF m0 > 12 THEN YearOf(cycle_start) + 1 ELSE YearOf(cycle_start)
         IN  [raised |-> FALSE, date |-> MkDate(year, month, DayOf(cycle_start))]
    ELSE [raised |-> FALSE,
          date |-> MkDate(YearOf(cycle_start) + 1, MonthOf(cycle_start), DayOf(cycle_start))]

\* get_next_billing_date: raised is TRUE where datetime.replace raises ValueError
get_next_billing_date(cycle_start, cycle_type) ==
    IF cycle_type = "monthly"
    THEN LET m0 == MonthOf(cycle_start) + 1
             month == IF m0 > 12 THEN 1 ELSE m0
             year == IF m0 > 12 THEN YearOf(cycle_start) + 1 ELSE YearOf(cycle_start)
             last_day == monthrange(year, month)
             day == IF DayOf(cycle_start) < last_day THEN DayOf(cycle_start) ELSE last_day
         IN  [raised |-> FALSE, date |-> MkDate(year, month, day)]
    ELSE LET year == YearOf(cycle_start) + 1
         IN  IF ValidDate(year, MonthOf(cycle_start), DayOf(cycle_start))
             THEN [raised |-> FALSE,
                   date |-> MkDate(year, MonthOf(cycle_start), DayOf(cycle_start))]
             ELSE [raised |-> TRUE, date |-> cycle_start]

\* the row of a tenant after registration and initialize_tenant_billing at `at`
initialize_tenant_billing(tid, at, billing_cycle, status) ==
    [ id |-> tid,
      plan_type |-> "free",
      billing_cycle |-> billing_cycle,
      usage_count |-> 0,
      rate_limit |-> FreeRateLimit,
      billing_start |-> at,
      billing_end |-> get_next_billing_date(at, billing_cycle).date,
      last_reset |-> at,
      subscription_status |-> status ]

\* a monthly tenant registers at the first sample of the clock, a yearly tenant
\* a year before it
RegisteredAt(billing_cycle) ==
    IF billing_cycle = "monthly" THEN MkDate(2024, 1, 15) ELSE MkDate(2023, 1, 15)

\* ------------------------------------------------------------ store queries
NoRow == [id |-> "none"]

\* get_tenant: the row, or None
get_tenant(tid) == IF tid \in DOMAIN tenants THEN tenants[tid] ELSE NoRow

\* a count answered from the live counter of the tenant
CycleUsageFromCounter(tid, cycle) ==
    IF tid \in DOMAIN tenants THEN tenants[tid].usage_count ELSE 0

\* a count over the events of every tenant
CycleUsageOfAllTenants(tid, cycle) ==
    Cardinality({ i \in 1..Len(usage_logs) : usage_logs[i].billing_cycle = cycle })

\* SELECT COUNT(*) FROM usage_logs WHERE tenant_id = ? AND billing_cycle = ?
get_cycle_usage(tid, cycle) ==
    Cardinality({ i \in 1..Len(usage_logs) :
                    usage_logs[i].tenant_id = tid /\ usage_logs[i].billing_cycle = cycle })

\* get_current_billing_cycle
get_current_billing_cycle == CycleKey(now)

Max(a, b) == IF a > b THEN a ELSE b

\* ---------------------------------------------------------------- processes
\* A worker runs one call at a time.  pc is the next store round trip of the
\* call, stack the steps its callers continue with; tenant, now, usage and
\* overage are the locals of the function being run, cycle the period key that
\* log_usage took, ret the result of check_rate_limit, resp the HTTP outcome.
IdleProc ==
    [ pc |-> "idle", stack |-> <<>>, op |-> "none", tid |-> Unknown,
      tenant |-> NoRow, now |-> 0, cycle |-> 0, usage |-> 0, overage |-> 0,
      ret |-> [allowed |-> FALSE, error |-> "none"], resp |-> [status |-> 0] ]

Free(pr) == pr.pc \in {"idle", "done", "raised"}

Init ==
    /\ now = MkDate(2024, 1, 15)
    /\ \E bc \in BillingCycles, st \in SubscriptionStatuses :
         tenants = [t \in {"t1"} |->
                      initialize_tenant_billing(t, RegisteredAt(bc), bc, st)]
    /\ usage_logs = <<>>
    /\ billing_history = <<>>
    /\ procs = [p \in Procs |-> IdleProc]

\* the clock advances between any two steps, to a later sample
Tick(dates) ==
    /\ \E d \in dates : d > now /\ now' = d
    /\ UNCHANGED <<tenants, usage_logs, billing_history, procs>>

Set(p, pr) == procs' = [procs EXCEPT ![p] = pr]

\* dict.get(key): the value, or None
Get(d, key) == IF key \in DOMAIN d THEN d[key] ELSE "None"

\* get_current_tenant, app.py lines 124-152: the HTTP error of a refused request
ErrorResponse(rate_info) ==
    IF rate_info.error = "subscription_inactive"
    THEN [ status |-> 402, error |-> "subscription_inactive",
           subscription_status |-> Get(rate_info, "status") ]
    ELSE [ status |-> 429, error |-> "rate_limit_exceeded",
           current_usage |-> Get(rate_info, "current_usage"),
           limit |-> Get(rate_info, "limit"),
           remaining |-> 0,
           days_left |-> Get(rate_info, "days_left"),
           billing_end |-> Get(rate_info, "billing_end") ]

\* log_usage line 268: the period key is taken from the clock on entry, before
\* the reconciliation of line 271; cont is where the caller goes on afterwards
EnterLogUsage(pr, cont) ==
    [pr EXCEPT !.pc = "cru_get", !.cycle = get_current_billing_cycle,
               !.stack = <<"lu_insert">> \o cont]

\* The steps between two store round trips touch no shared state and run with
\* the round trip before them:
\*   gk_fresh   models.py line 329, auth.py line 26: get_tenant_by_api_key reads
\*              the row again (a read whose result the gate does not use) and
\*              verify_api_key calls check_rate_limit
\*   vk_decide  auth.py lines 28-35: refuse, or log the api_call and go on to
\*              the endpoint
Resume(pr) ==
    IF pr.pc = "gk_fresh"
    THEN [pr EXCEPT !.pc = "crl_get", !.stack = <<"vk_decide">>]
    ELSE IF pr.pc = "vk_decide"
    THEN IF pr.ret.allowed
         THEN EnterLogUsage(pr, <<"endpoint">>)
         ELSE [pr EXCEPT !.pc = "done", !.stack = <<>>, !.resp = ErrorResponse(pr.ret)]
    ELSE pr

\* return from a function: its locals are gone and the caller continues; the
\* outermost call keeps its frame for the caller to inspect
Return(pr) ==
    IF pr.stack = <<>>
    THEN [pr EXCEPT !.pc = "done"]
    ELSE Resume([pr EXCEPT !.pc = Head(pr.stack), !.stack = Tail(pr.stack),
                           !.tenant = NoRow, !.now = 0, !.usage = 0, !.overage = 0])

\* ------------------------------------------------- check_and_reset_usage
\* an expiry test against the start of the window
CycleExpiredFromStart(n, row) == n > row.billing_start

\* line 210: the cycle is closed only when now is past billing_end
CycleExpired(n, row) == n > row.billing_end

\* line 212: the period key whose usage is archived
ArchivedCycle(row) == CycleKey(row.billing_start)

\* a close that archives the live counter instead of the ledger count
ArchivedUsageFromCounter(tid, row) == row.usage_count

\* line 215: the usage written to the billing history
ArchivedUsage(tid, row) == get_cycle_usage(tid, ArchivedCycle(row))

\* an overage that is not floored at 0
OverageSigned(usage, rate_limit) == usage - rate_limit

\* line 222
Overage(usage, rate_limit) == Max(0, usage - rate_limit)

\* lines 202-210: read the tenant, read the clock, decide whether the cycle ended
CruGet(p) ==
    LET pr == procs[p]
        row == get_tenant(pr.tid)
    IN  /\ pr.pc = "cru_get"
        /\ IF row = NoRow
           THEN Set(p, Return(pr))
           ELSE IF CycleExpired(now, row)
                THEN Set(p, [pr EXCEPT !.pc = "cru_usage", !.tenant = row, !.now = now])
                ELSE Set(p, Return([pr EXCEPT !.tenant = row, !.now = now]))
        /\ UNCHANGED <<now, tenants, usage_logs, billing_history>>

\* lines 212-222: ledger usage of the archived period key, and the overage
CruUsage(p) ==
    LET pr == procs[p]
        usage == ArchivedUsage(pr.tid, pr.tenant)
    IN  /\ pr.pc = "cru_usage"
        /\ Set(p, [pr EXCEPT !.pc = "cru_insert", !.usage = usage,
                             !.overage = Overage(usage, pr.tenant.rate_limit)])
        /\ UNCHANGED <<now, tenants, usage_logs, billing_history>>

\* lines 224-230: the row appended to billing_history (status by the column default)
HistoryRow(pr) ==
    [ tenant_id |-> pr.tid,
      cycle_start |-> pr.tenant.billing_start,
      cycle_end |-> pr.tenant.billing_end,
      usage |-> pr.usage,
      overage |-> pr.overage,
      status |-> "pending",
      created_at |-> pr.now ]

\* lines 224-234: INSERT INTO billing_history, then compute the new window;
\* a ValueError of get_next_billing_date leaves the handler after the insert
CruInsert(p) ==
    LET pr == procs[p]
        nxt == get_next_billing_date(pr.now, pr.tenant.billing_cycle)
    IN  /\ pr.pc = "cru_insert"
        /\ Len(billing_history) < MaxHistory
        /\ billing_history' = Append(billing_history, HistoryRow(pr))
        /\ IF nxt.raised
           THEN Set(p, [pr EXCEPT !.pc = "raised", !.stack = <<>>])
           ELSE Set(p, [pr EXCEPT !.pc = "cru_update"])
        /\ UNCHANGED <<now, tenants, usage_logs>>

\* lines 237-242: UPDATE tenants SET billing_start, billing_end, last_reset, usage_count = 0
CruUpdate(p) ==
    LET pr == procs[p]
        nxt == get_next_billing_date(pr.now, pr.tenant.billing_cycle)
    IN  /\ pr.pc = "cru_update"
        /\ tenants' = [tenants EXCEPT ![pr.tid] =
               [@ EXCEPT !.billing_start = pr.now, !.billing_end = nxt.date,
                         !.last_reset = pr.now, !.usage_count = 0]]
        /\ Set(p, [pr EXCEPT !.pc = "cru_delete"])
        /\ UNCHANGED <<now, usage_logs, billing_history>>

\* line 245: timedelta(days=90)
RetentionDays == 90

\* a sweep over the old events of every tenant
CruDeleteAllTenants(p) ==
    LET pr == procs[p]
        Kept(e) == ~(toordinal(e.timestamp) < toordinal(pr.now) - RetentionDays)
    IN  /\ pr.pc = "cru_delete"
        /\ usage_logs' = SelectSeq(usage_logs, Kept)
        /\ Set(p, Return(pr))
        /\ UNCHANGED <<now, tenants, billing_history>>

\* lines 245-249: DELETE FROM usage_logs WHERE tenant_id = ? AND timestamp < now - 90 days
CruDelete(p) ==
    LET pr == procs[p]
        Kept(e) == ~(e.tenant_id = pr.tid
                     /\ toordinal(e.timestamp) < toordinal(pr.now) - RetentionDays)
    IN  /\ pr.pc = "cru_delete"
        /\ usage_logs' = SelectSeq(usage_logs, Kept)
        /\ Set(p, Return(pr))
        /\ UNCHANGED <<now, tenants, billing_history>>

\* ------------------------------------------------------------------ log_usage
\* lines 273-277: INSERT INTO usage_logs with timestamp datetime.now()
LuInsert(p) ==
    LET pr == procs[p]
    IN  /\ pr.pc = "lu_insert"
        /\ Len(usage_logs) < MaxEvents
        /\ usage_logs' = Append(usage_logs,
               [ tenant_id |-> pr.tid, timestamp |-> now, billing_cycle |-> pr.cycle ])
        /\ Set(p, [pr EXCEPT !.pc = "lu_incr"])
        /\ UNCHANGED <<now, tenants, billing_history>>

\* an increment written from a value read before a concurrent increment: of
\* two workers about to increment, the first one's write is overwritten
LuIncrLostUpdate(p) ==
    LET pr == procs[p]
        Racing == \E q \in Procs \ {p} : procs[q].pc = "lu_incr" /\ procs[q].tid = pr.tid
    IN  /\ pr.pc = "lu_incr"
        /\ tenants' = [t \in DOMAIN tenants |->
                         IF t = pr.tid /\ ~Racing
                         THEN [tenants[t] EXCEPT !.usage_count = @ + 1]
                         ELSE tenants[t]]
        /\ Set(p, Return([pr EXCEPT !.cycle = 0]))
        /\ UNCHANGED <<now, usage_logs, billing_history>>

\* lines 280-283: UPDATE tenants SET usage_count = usage_count + 1 WHERE id = ?
LuIncr(p) ==
    LET pr == procs[p]
    IN  /\ pr.pc = "lu_incr"
        /\ tenants' = [t \in DOMAIN tenants |->
                         IF t = pr.tid
                         THEN [tenants[t] EXCEPT !.usage_count = @ + 1]
                         ELSE tenants[t]]
        /\ Set(p, Return([pr EXCEPT !.cycle = 0]))
        /\ UNCHANGED <<now, usage_logs, billing_history>>

\* ------------------------------------------------------------ check_rate_limit
\* (billing_end - now).days
DaysLeft(row, n) == toordinal(row.billing_end) - toordinal(n)

\* a gate that still allows at usage = rate_limit
RateLimitDecisionOffByOne(row, cycle_usage, n) ==
    IF cycle_usage > row.rate_limit
    THEN [ allowed |-> FALSE,
           error |-> "rate_limit_exceeded",
           current_usage |-> cycle_usage,
           limit |-> row.rate_limit,
           overage |-> cycle_usage - row.rate_limit,
           days_left |-> DaysLeft(row, n),
           billing_end |-> row.billing_end ]
    ELSE [ allowed |-> TRUE,
           current_usage |-> cycle_usage,
           limit |-> row.rate_limit,
           remaining |-> row.rate_limit - cycle_usage,
           days_left |-> DaysLeft(row, n),
           billing_end |-> row.billing_end ]

\* a gate that allows whatever the usage
RateLimitDecisionAllowsAll(row, cycle_usage, n) ==
    [ allowed |-> TRUE,
      current_usage |-> cycle_usage,
      limit |-> row.rate_limit,
      remaining |-> row.rate_limit - cycle_usage,
      days_left |-> DaysLeft(row, n),
      billing_end |-> row.billing_end ]

\* lines 354-373: the decision on the ledger usage of the current period key
RateLimitDecision(row, cycle_usage, n) ==
    IF cycle_usage >= row.rate_limit
    THEN [ allowed |-> FALSE,
           error |-> "rate_limit_exceeded",
           current_usage |-> cycle_usage,
           limit |-> row.rate_limit,
           overage |-> cycle_usage - row.rate_limit,
           days_left |-> DaysLeft(row, n),
           billing_end |-> row.billing_end ]
    ELSE [ allowed |-> TRUE,
           current_usage |-> cycle_usage,
           limit |-> row.rate_limit,
           remaining |-> row.rate_limit - cycle_usage,
           days_left |-> DaysLeft(row, n),
           billing_end |-> row.billing_end ]

\* a gate that does not look at the subscription status
StatusDecisionSkipsStatus(row) ==
    IF row = NoRow
    THEN [allowed |-> FALSE, error |-> "Tenant not found"]
    ELSE [allowed |-> TRUE]

\* a gate that reports an unknown tenant as a rate-limit deny
StatusDecisionNotFoundAsDeny(row) ==
    IF row = NoRow
    THEN [allowed |-> FALSE, error |-> "rate_limit_exceeded"]
    ELSE IF row.subscription_status # "active"
         THEN [allowed |-> FALSE, error |-> "subscription_inactive",
               status |-> row.subscription_status]
         ELSE [allowed |-> TRUE]

\* lines 334-343: tenant lookup, then the subscription status
StatusDecision(row) ==
    IF row = NoRow
    THEN [allowed |-> FALSE, error |-> "Tenant not found"]
    ELSE IF row.subscription_status # "active"
         THEN [allowed |-> FALSE, error |-> "subscription_inactive",
               status |-> row.subscription_status]
         ELSE [allowed |-> TRUE]

CrlGet(p) ==
    LET pr == procs[p]
        row == get_tenant(pr.tid)
        d == StatusDecision(row)
    IN  /\ pr.pc = "crl_get"
        /\ IF d.allowed
           THEN Set(p, [pr EXCEPT !.pc = "crl_usage", !.tenant = row])
           ELSE Set(p, Return([pr EXCEPT !.tenant = row, !.ret = d]))
        /\ UNCHANGED <<now, tenants, usage_logs, billing_history>>

\* lines 346-373: the ledger count of the current period key, then the decision
CrlUsage(p) ==
    LET pr == procs[p]
        cycle_usage == get_cycle_usage(pr.tid, get_current_billing_cycle)
    IN  /\ pr.pc = "crl_usage"
        /\ Set(p, Return([pr EXCEPT !.usage = cycle_usage, !.now = now,
                                    !.ret = RateLimitDecision(pr.tenant, cycle_usage, now)]))
        /\ UNCHANGED <<now, tenants, usage_logs, billing_history>>

\* ------------------------------------------- verify_api_key and the endpoints
\* get_tenant_by_api_key, models.py lines 315-326: look the key up, then
\* reconcile; an unknown key is refused with 401 (app.py lines 124-125)
GkLookup(p) ==
    LET pr == procs[p]
    IN  /\ pr.pc = "gk_lookup"
        /\ IF pr.tid \in DOMAIN tenants
           THEN Set(p, [pr EXCEPT !.pc = "cru_get", !.stack = <<"gk_fresh">>])
           ELSE Set(p, [pr EXCEPT !.pc = "done", !.resp = [status |-> 401]])
        /\ UNCHANGED <<now, tenants, usage_logs, billing_history>>

\* an endpoint such as trigger_audit, app.py lines 344-359: the metered action
\* fails with 404, or succeeds and is logged
Endpoint(p) ==
    LET pr == procs[p]
    IN  /\ pr.pc = "endpoint"
        /\ \E found \in BOOLEAN :
             IF found
             THEN Set(p, EnterLogUsage([pr EXCEPT !.resp = [status |-> 200]], <<>>))
             ELSE Set(p, [pr EXCEPT !.pc = "done", !.resp = [status |-> 404]])
        /\ UNCHANGED <<now, tenants, usage_logs, billing_history>>

\* ------------------------------------------------------------ the operations
\* a call is served by the first free worker
Begin(p, pr) ==
    /\ Free(procs[p])
    /\ \A q \in Procs : q < p => ~Free(procs[q])
    /\ Set(p, pr)
    /\ UNCHANGED <<now, tenants, usage_logs, billing_history>>

\* the tenant ids a caller may pass: the registered ones and an unknown one
RequestIds == DOMAIN tenants \cup {Unknown}

\* reconcile: check_and_reset_usage(tenant_id)
StartReconcile(p, ids) ==
    \E tid \in ids : Begin(p, [IdleProc EXCEPT !.pc = "cru_get", !.op = "reconcile", !.tid = tid])

\* record: log_usage(tenant_id, action)
StartRecord(p, ids) ==
    \E tid \in ids :
        Begin(p, EnterLogUsage([IdleProc EXCEPT !.op = "record", !.tid = tid], <<>>))

\* check: check_rate_limit(tenant_id)
StartCheck(p, ids) ==
    \E tid \in ids : Begin(p, [IdleProc EXCEPT !.pc = "crl_get", !.op = "check", !.tid = tid])

\* a request through get_current_tenant and an endpoint
StartRequest(p, ids) ==
    \E tid \in ids : Begin(p, [IdleProc EXCEPT !.pc = "gk_lookup", !.op = "request", !.tid = tid])

Start(p, ids) ==
    StartReconcile(p, ids) \/ StartRecord(p, ids) \/ StartCheck(p, ids) \/ StartRequest(p, ids)

Step(p) ==
    \/ CruGet(p) \/ CruUsage(p) \/ CruInsert(p) \/ CruUpdate(p) \/ CruDelete(p)
    \/ LuInsert(p) \/ LuIncr(p)
    \/ CrlGet(p) \/ CrlUsage(p)
    \/ GkLookup(p) \/ Endpoint(p)

\* two workers race on one active monthly tenant: in its first cycle, at a
\* month boundary inside the cycle, and after the cycle has ended
RaceDates == { MkDate(2024, 1, 15), MkDate(2024, 2, 1), MkDate(2024, 2, 29) }

InitRace ==
    /\ now = MkDate(2024, 1, 15)
    /\ tenants = [t \in {"t1"} |->
                    initialize_tenant_billing(t, RegisteredAt("monthly"), "monthly", "active")]
    /\ usage_logs = <<>>
    /\ billing_history = <<>>
    /\ procs = [p \in Procs |-> IdleProc]

\* concurrent calls for the registered tenants against the shared store
Next == Tick(RaceDates) \/ \E p \in Procs : Start(p, DOMAIN tenants) \/ Step(p)

Spec == InitRace /\ [][Next]_vars

\* one call at a time, for any tenant id: a call starts only when no other
\* call is in progress
NoneInProgress == \A q \in Procs : Free(procs[q])

NextSeq == Tick(ClockDates) \/ \E p \in Procs : (NoneInProgress /\ Start(p, RequestIds)) \/ Step(p)

SpecSeq == Init /\ [][NextSeq]_vars

\* --------------------------------------------------- transient store failure
\* execute_query, lines 157-159: the statement fails, is rolled back and the
\* exception leaves check_and_reset_usage; here the UPDATE of lines 237-242,
\* after the INSERT INTO billing_history has been committed
CruUpdateFails(p) ==
    LET pr == procs[p]
    IN  /\ pr.pc = "cru_update"
        /\ Set(p, [pr EXCEPT !.pc = "raised", !.stack = <<>>])
        /\ UNCHANGED <<now, tenants, usage_logs, billing_history>>

\* one call at a time for the monthly tenant, against a store whose UPDATE of
\* the window may fail; a failed call may be run again
NextRetry ==
    \/ Tick(RaceDates)
    \/ \E p \in Procs :
          (NoneInProgress /\ Start(p, DOMAIN tenants)) \/ Step(p) \/ CruUpdateFails(p)

SpecRetry == InitRace /\ [][NextRetry]_vars

\* ------------------------------------------------ calculate_overage_charges
\* init_db, lines 126-130: the plan catalogue
plans ==
    [ free       |-> [rate_limit |-> 100,   overage_rate |-> 0],
      pro        |-> [rate_limit |-> 1000,  overage_rate |-> 5],
      enterprise |-> [rate_limit |-> 10000, overage_rate |-> 2] ]

\* a charge computed without the test usage <= rate_limit
ChargeResultUnguarded(usage, rate_limit, overage_rate) ==
    LET overage == usage - rate_limit
        overage_blocks == (overage + 99) \div 100
    IN  [ usage |-> usage,
          limit |-> rate_limit,
          overage |-> overage,
          overage_blocks |-> overage_blocks,
          rate_per_block |-> overage_rate,
          total_charge |-> overage_blocks * overage_rate ]

\* lines 482-507: the dict returned for a usage, the tenant's rate_limit and
\* the overage_rate of its plan
ChargeResult(usage, rate_limit, overage_rate) ==
    IF usage <= rate_limit
    THEN [overage |-> 0, charge |-> 0]
    ELSE LET overage == usage - rate_limit
             overage_blocks == (overage + 99) \div 100
         IN  [ usage |-> usage,
               limit |-> rate_limit,
               overage |-> overage,
               overage_blocks |-> overage_blocks,
               rate_per_block |-> overage_rate,
               total_charge |-> overage_blocks * overage_rate ]

\* lines 488-494: the overage_rate of a plan, 0 for a plan not in the catalogue
OverageRate(plan_type) ==
    IF plan_type \in DOMAIN plans THEN plans[plan_type].overage_rate ELSE 0

\* lines 473-507, for the current period key: three reads of the store (tenant,
\* ledger count, plan) and the dict made of them; {} for an unknown tenant
CalculateOverageCharges(p) ==
    LET pr == procs[p]
        tenant == get_tenant(pr.tid)
        usage == get_cycle_usage(pr.tid, get_current_billing_cycle)
    IN  /\ pr.pc = "coc_get"
        /\ IF tenant = NoRow
           THEN Set(p, [pr EXCEPT !.pc = "done", !.ret = [k \in {} |-> 0]])
           ELSE Set(p, [pr EXCEPT !.pc = "done", !.tenant = tenant, !.usage = usage,
                          !.ret = ChargeResult(usage, tenant.rate_limit,
                                               OverageRate(tenant.plan_type))])
        /\ UNCHANGED <<now, tenants, usage_logs, billing_history>>

\* charge: calculate_overage_charges(tenant_id)
StartCharge(p, ids) ==
    \E tid \in ids : Begin(p, [IdleProc EXCEPT !.pc = "coc_get", !.op = "charge", !.tid = tid])

\* the rate limits of the tenants that are charged: those of the two smaller plans
ChargeLimits == { plans[pl].rate_limit : pl \in {"free", "pro"} }

\* a tenant of any plan with any of these limits and any number of events in
\* the current period
InitCharge ==
    /\ now = MkDate(2024, 1, 15)
    /\ \E pl \in DOMAIN plans, lim \in ChargeLimits :
         tenants = [t \in {"t1"} |->
                      [initialize_tenant_billing(t, RegisteredAt("monthly"), "monthly", "active")
                         EXCEPT !.plan_type = pl, !.rate_limit = lim]]
    /\ \E n \in 0..MaxChargeUsage :
         usage_logs = [i \in 1..n |->
                         [ tenant_id |-> "t1", timestamp |-> now,
                           billing_cycle |-> CycleKey(now) ]]
    /\ billing_history = <<>>
    /\ procs = [p \in Procs |-> IdleProc]

NextCharge ==
    \E p \in Procs : (NoneInProgress /\ StartCharge(p, RequestIds)) \/ CalculateOverageCharges(p)

SpecCharge == InitCharge /\ [][NextCharge]_vars

\* ------------------------------------------------------------ two tenants
\* the instants sampled with two tenants: registration, a date after the end
\* of the first cycle, and a date more than 90 days after registration
IsoDates == { MkDate(2024, 1, 15), MkDate(2024, 2, 29), MkDate(2024, 4, 30) }

\* two active monthly tenants registered at the same instant
InitIso ==
    /\ now = MkDate(2024, 1, 15)
    /\ tenants = [t \in {"t1", "t2"} |->
                    initialize_tenant_billing(t, RegisteredAt("monthly"), "monthly", "active")]
    /\ usage_logs = <<>>
    /\ billing_history = <<>>
    /\ procs = [p \in Procs |-> IdleProc]

\* check, record, reconcile and charge, for either tenant
StartIso(p) ==
    \/ StartReconcile(p, DOMAIN tenants)
    \/ StartRecord(p, DOMAIN tenants)
    \/ StartCheck(p, DOMAIN tenants)
    \/ StartCharge(p, DOMAIN tenants)

StepIso(p) ==
    \/ CruGet(p) \/ CruUsage(p) \/ CruInsert(p) \/ CruUpdate(p) \/ CruDelete(p)
    \/ LuInsert(p) \/ LuIncr(p)
    \/ CrlGet(p) \/ CrlUsage(p)
    \/ CalculateOverageCharges(p)

\* one call at a time against a store that holds both tenants
NextIso ==
    Tick(IsoDates) \/ \E p \in Procs : (NoneInProgress /\ StartIso(p)) \/ StepIso(p)

SpecIso == InitIso /\ [][NextIso]_vars

\* ------------------------------------------------------ get_billing_history
\* the largest overage of an archived cycle
MaxHistoryOverage == 250

\* tenant.PLAN_LIMITS: the plan catalogue as a dict, plan identifier to
\* rate_limit and overage_rate
PLAN_LIMITS == plans

\* app.py line 413: PLAN_LIMITS.get(plan_type, PLAN_LIMITS['free'])
PlanOf(plan_type) ==
    IF plan_type \in DOMAIN PLAN_LIMITS THEN PLAN_LIMITS[plan_type] ELSE PLAN_LIMITS["free"]

\* app.py line 415: overage * overage_rate / 100 if overage > 0 else 0; the
\* true division yields a fraction, kept as numerator over denominator
HistoryOverageCharge(overage, overage_rate) ==
    IF overage > 0
    THEN [num |-> overage * overage_rate, den |-> 100]
    ELSE [num |-> 0, den |-> 1]

\* app.py lines 417-425: the entry reported for a billing_history row
HistoryEntry(h, tenant) ==
    [ cycle |-> <<CycleKey(h.cycle_start), CycleKey(h.cycle_end)>>,
      usage |-> h.usage,
      limit |-> tenant.rate_limit,
      overage |-> h.overage,
      overage_charge |-> HistoryOverageCharge(h.overage, PlanOf(tenant.plan_type).overage_rate),
      status |-> h.status ]

\* ORDER BY created_at DESC over rows appended in clock order
NewestFirst(rows) == [i \in 1..Len(rows) |-> rows[Len(rows) + 1 - i]]

\* app.py lines 399-427, run for the tenant the gate has returned: SELECT the
\* tenant's rows, newest first, and report one entry per row
GetBillingHistory(p) ==
    \E tid \in DOMAIN tenants :
        LET Own(h) == h.tenant_id = tid
            history == NewestFirst(SelectSeq(billing_history, Own))
            pr == [IdleProc EXCEPT !.op = "history", !.tid = tid, !.tenant = tenants[tid]]
        IN  /\ Begin(p, [pr EXCEPT !.pc = "done",
                                   !.ret = [i \in 1..Len(history) |->
                                              HistoryEntry(history[i], tenants[tid])],
                                   !.resp = [status |-> 200]])

\* a tenant of any plan, with the rate_limit of the plan, after two cycle
\* closes: the first cycle ended with any overage up to MaxHistoryOverage,
\* the second cycle had no usage, and its close has swept the ledger
InitHistory ==
    /\ now = MkDate(2024, 6, 30)
    /\ \E pl \in DOMAIN plans, overage \in 0..MaxHistoryOverage :
         LET row == [initialize_tenant_billing("t1", now, "monthly", "active")
                       EXCEPT !.plan_type = pl, !.rate_limit = plans[pl].rate_limit]
         IN  /\ tenants = [t \in {"t1"} |-> row]
             /\ billing_history =
                  << [ tenant_id |-> "t1",
                       cycle_start |-> MkDate(2024, 1, 15),
                       cycle_end |-> MkDate(2024, 2, 15),
                       usage |-> row.rate_limit + overage,
                       overage |-> Overage(row.rate_limit + overage, row.rate_limit),
                       status |-> "pending",
                       created_at |-> MkDate(2024, 2, 29) ],
                     [ tenant_id |-> "t1",
                       cycle_start |-> MkDate(2024, 2, 29),
                       cycle_end |-> MkDate(2024, 3, 29),
                       usage |-> 0,
                       overage |-> 0,
                       status |-> "pending",
                       created_at |-> now ] >>
    /\ usage_logs = <<>>
    /\ procs = [p \in Procs |-> IdleProc]

NextHistory == \E p \in Procs : GetBillingHistory(p)

SpecHistory == InitHistory /\ [][NextHistory]_vars

\* ------------------------------------------------ initialize_tenant_billing
\* the valid dates of a common year and of a leap year
CalendarDates ==
    { date \in { MkDate(y, m, d) : y \in {2023, 2024}, m \in 1..12, d \in 1..31 } :
        ValidDate(YearOf(date), MonthOf(date), DayOf(date)) }

\* a tenant row before its billing is initialized: the column defaults of
\* the tenants table, no window yet
UnbilledRow(tid) ==
    [ id |-> tid, plan_type |-> "free", billing_cycle |-> "monthly",
      usage_count |-> 0, rate_limit |-> FreeRateLimit,
      billing_start |-> 0, billing_end |-> 0, last_reset |-> 0,
      subscription_status |-> "active" ]

\* initialize_tenant_billing(tenant_id, plan_type, billing_cycle): the window
\* starts now and ends at get_next_billing_date(now, billing_cycle); a
\* ValueError of get_next_billing_date leaves the call before the UPDATE; the
\* frame keeps the billing_cycle argument of the call
InitializeTenantBilling(p) ==
    \E tid \in DOMAIN tenants, bc \in BillingCycles :
        LET nxt == get_next_billing_date(now, bc)
            pr == [IdleProc EXCEPT !.op = "init_billing", !.tid = tid, !.now = now]
        IN  /\ Free(procs[p])
            /\ \A q \in Procs : q < p => ~Free(procs[q])
            /\ IF nxt.raised
               THEN /\ Set(p, [pr EXCEPT !.pc = "raised", !.tenant = [billing_cycle |-> bc]])
                    /\ UNCHANGED tenants
               ELSE /\ tenants' = [tenants EXCEPT ![tid] =
                          [@ EXCEPT !.billing_start = now, !.billing_end = nxt.date,
                                    !.last_reset = now, !.billing_cycle = bc]]
                    /\ Set(p, [pr EXCEPT !.pc = "done", !.tenant = [billing_cycle |-> bc]])
            /\ UNCHANGED <<now, usage_logs, billing_history>>

\* the advance as a function of its inputs: the billing of a fresh tenant is
\* initialized at any date of the calendar, for either kind of cycle
InitAdvance ==
    /\ now \in CalendarDates
    /\ tenants = [t \in {"t1"} |-> UnbilledRow(t)]
    /\ usage_logs = <<>>
    /\ billing_history = <<>>
    /\ procs = [p \in Procs |-> IdleProc]

NextAdvance == \E p \in Procs : InitializeTenantBilling(p)

SpecAdvance == InitAdvance /\ [][NextAdvance]_vars

\* ===================================================================== claims
\* the rows of billing_history that archive the window of `row` for tenant tid
RowsFor(tid, row) ==
    { i \in 1..Len(billing_history) :
        /\ billing_history[i].tenant_id = tid
        /\ billing_history[i].cycle_start = row.billing_start
        /\ billing_history[i].cycle_end = row.billing_end }

\* the ledger events of tenant tid that satisfy Test
EventsOf(tid, Test(_)) ==
    { i \in 1..Len(usage_logs) : usage_logs[i].tenant_id = tid /\ Test(usage_logs[i]) }

\* C1: whatever the interleaving of concurrent reconciliations, billing_history
\* never holds two rows with the same tenant, cycle_start and cycle_end.
C1_OneRecordPerClosedWindow ==
    \A i, j \in 1..Len(billing_history) :
        ( /\ billing_history[i].tenant_id = billing_history[j].tenant_id
          /\ billing_history[i].cycle_start = billing_history[j].cycle_start
          /\ billing_history[i].cycle_end = billing_history[j].cycle_end ) => i = j

\* C2: in sequential use, when a reconcile call has ended (returned or raised),
\* the window it found is archived at most once, also when the call before it
\* was a reconcile of the same window.
C2_ReconcileTwiceOneRecord ==
    \A p \in Procs :
        ( /\ procs[p].op = "reconcile"
          /\ procs[p].pc \in {"done", "raised"}
          /\ procs[p].tenant # NoRow )
        => Cardinality(RowsFor(procs[p].tid, procs[p].tenant)) <= 1

\* C3: when a reconcile call has returned, the instant `now` the call sampled
\* lies in the tenant's window: cycle_start <= now < cycle_end.
C3_WindowHoldsAfterReconcile ==
    \A p \in Procs :
        ( /\ procs[p].op = "reconcile"
          /\ procs[p].pc = "done"
          /\ procs[p].tid \in DOMAIN tenants )
        => /\ tenants[procs[p].tid].billing_start <= procs[p].now
           /\ procs[p].now < tenants[procs[p].tid].billing_end

\* the cycles of the tenant that have ended by the instant n, counted from the
\* stored window on (a cycle has ended when n is not before its end)
RECURSIVE StaleCycles(_, _, _, _)
StaleCycles(cycle_end, billing_cycle, n, fuel) ==
    IF n < cycle_end \/ fuel = 0
    THEN 0
    ELSE 1 + StaleCycles(get_next_billing_date(cycle_end, billing_cycle).date,
                         billing_cycle, n, fuel - 1)

\* the rows a call at instant n appended for tenant tid
RowsCreatedAt(tid, n) ==
    { i \in 1..Len(billing_history) :
        billing_history[i].tenant_id = tid /\ billing_history[i].created_at = n }

\* C4: when a reconcile call that found two or more stale cycles has returned,
\* it has appended one BillingPeriodRecord per stale cycle.
C4_OneRecordPerMissedCycle ==
    \A p \in Procs :
        LET pr == procs[p]
            k == StaleCycles(pr.tenant.billing_end, pr.tenant.billing_cycle, pr.now, 4)
        IN  ( /\ pr.op = "reconcile"
              /\ pr.pc = "done"
              /\ pr.tenant # NoRow
              /\ k >= 2 )
            => Cardinality(RowsCreatedAt(pr.tid, pr.now)) = k

\* C5: between calls, the live counter of every tenant equals the ledger count
\* of its current cycle, whether the cycle's period key is taken from the clock
\* (the default of count) or from the tenant's cycle_start (the key reconcile
\* archives).
C5_CounterEqualsLedger ==
    NoneInProgress =>
        \A t \in DOMAIN tenants :
            LET InKeyOfNow(e) == e.billing_cycle = now \div 100
                InKeyOfStart(e) == e.billing_cycle = tenants[t].billing_start \div 100
            IN  \/ tenants[t].usage_count = Cardinality(EventsOf(t, InKeyOfNow))
                \/ tenants[t].usage_count = Cardinality(EventsOf(t, InKeyOfStart))

\* a worker that has just appended the billing_history row of the cycle it closes
JustArchived(p) ==
    /\ procs[p].pc \in {"cru_update", "raised"}
    /\ Len(billing_history) > 0

\* C6: in sequential use, the usage of the row reconcile has just appended is
\* the number of ledger events of the tenant tagged with the YYYY-MM key of the
\* closed window's cycle_start, whatever the live counter says.
C6_ArchivedUsageIsLedgerCount ==
    \A p \in Procs :
        JustArchived(p) =>
            LET row == billing_history[Len(billing_history)]
                InKeyOfStart(e) == e.billing_cycle = row.cycle_start \div 100
            IN  row.usage = Cardinality(EventsOf(row.tenant_id, InKeyOfStart))

\* C6 witness: a cycle is archived while the live counter differs from the
\* ledger count that is written
C6_Witness ==
    \E p \in Procs :
        /\ JustArchived(p)
        /\ billing_history[Len(billing_history)].usage # procs[p].tenant.usage_count
        /\ billing_history[Len(billing_history)].usage > 0

\* C7: in sequential use, the usage of the row reconcile has just appended is
\* the number of events recorded while the closed window was live: the events
\* whose timestamp lies in [cycle_start, cycle_end), or else the number of
\* record calls since the window opened (the live counter at the close).
C7_ArchivedUsageIsUsageOfWindow ==
    \A p \in Procs :
        JustArchived(p) =>
            LET row == billing_history[Len(billing_history)]
                InWindow(e) == row.cycle_start <= e.timestamp /\ e.timestamp < row.cycle_end
            IN  \/ row.usage = Cardinality(EventsOf(row.tenant_id, InWindow))
                \/ row.usage = procs[p].tenant.usage_count

DecisionMade(pr) ==
    /\ pr.op = "request"
    /\ \/ pr.pc = "done" /\ pr.resp.status = 429
       \/ pr.pc = "cru_get" /\ pr.stack = <<"lu_insert", "endpoint">>

\* C9: in sequential use, the usage in the decision of a request counts only
\* events of the tenant's current cycle: it is at most the number of the
\* tenant's events recorded since the current cycle_start.
C9_DecisionCountsCurrentCycleOnly ==
    \A p \in Procs :
        LET pr == procs[p]
            SinceStart(e) == e.timestamp >= tenants[pr.tid].billing_start
        IN  DecisionMade(pr) =>
                pr.ret.current_usage <= Cardinality(EventsOf(pr.tid, SinceStart))

\* C10: for a tenant whose subscription is not active, check_rate_limit denies
\* with subscription_inactive and a request is refused with 402
\* subscription_inactive, whatever the usage.
C10_InactiveAlwaysDenied ==
    \A p \in Procs :
        LET pr == procs[p]
        IN  ( /\ pr.pc = "done"
              /\ pr.tid \in DOMAIN tenants
              /\ tenants[pr.tid].subscription_status # "active" )
            => /\ pr.op = "check" =>
                    /\ ~pr.ret.allowed
                    /\ pr.ret.error = "subscription_inactive"
               /\ pr.op = "request" =>
                    /\ pr.resp.status = 402
                    /\ pr.resp.error = "subscription_inactive"

\* C10 witness: a check is denied for an inactive subscription although the
\* ledger count of the current period key is at or above the limit
C10_Witness ==
    \E p \in Procs :
        LET InCurrentKey(e) == e.billing_cycle = now \div 100
        IN  /\ procs[p].op = "check"
            /\ procs[p].pc = "done"
            /\ procs[p].tid \in DOMAIN tenants
            /\ ~procs[p].ret.allowed
            /\ procs[p].ret.error = "subscription_inactive"
            /\ Cardinality(EventsOf(procs[p].tid, InCurrentKey))
                 >= tenants[procs[p].tid].rate_limit

\* the reasons of a deny
DenyReasons == {"rate_limit_exceeded", "subscription_inactive"}

InGate(pr) ==
    /\ pr.op = "request"
    /\ \/ pr.pc = "gk_lookup"
       \/ pr.stack # <<>> /\ pr.stack[Len(pr.stack)] \in {"gk_fresh", "vk_decide", "endpoint"}

\* C12: in sequential use, no step of check_rate_limit and no step of the gate
\* of a request appends to the usage ledger or raises a live counter (a
\* reconciliation inside the gate may only prune events and reset the counter).
C12_GateRecordsNothing ==
    [][ \A p \in Procs :
          (procs'[p] # procs[p] /\ (procs[p].op = "check" \/ InGate(procs[p])))
          => /\ Len(usage_logs') <= Len(usage_logs)
             /\ \A t \in DOMAIN tenants :
                    tenants'[t].usage_count <= tenants[t].usage_count ]_vars

\* C13: in sequential use, a record call for a registered tenant never ends in
\* an error, whatever the usage; its only append to the ledger is one event of
\* the tenant stamped with the clock and carrying the period key of that
\* instant, and its only change of the live counter apart from the reset of a
\* reconciliation is the increment by 1 that ends the call.
C13_RecordAlwaysSucceeds ==
    [][ \A p \in Procs :
          LET pr == procs[p]
          IN  ( /\ procs'[p] # pr
                /\ pr.op = "record"
                /\ ~Free(pr)
                /\ pr.tid \in DOMAIN tenants )
              => /\ procs'[p].pc # "raised"
                 /\ IF pr.pc = "lu_insert"
                    THEN usage_logs' = Append(usage_logs,
                             [ tenant_id |-> pr.tid, timestamp |-> now,
                               billing_cycle |-> CycleKey(now) ])
                    ELSE Len(usage_logs') <= Len(usage_logs)
                 /\ IF pr.pc = "lu_incr"
                    THEN /\ tenants'[pr.tid].usage_count = tenants[pr.tid].usage_count + 1
                         /\ procs'[p].pc = "done"
                    ELSE tenants'[pr.tid].usage_count <= tenants[pr.tid].usage_count ]_vars

\* C14: in sequential use, the usage check_rate_limit reports for a tenant is
\* the number of usage_logs rows of that tenant tagged with the period key of
\* the instant of the check, whatever the live counter holds.
C14_CountIsLedgerCount ==
    \A p \in Procs :
        LET pr == procs[p]
            InPeriod(e) == e.billing_cycle = CycleKey(pr.now)
        IN  ( /\ pr.op = "check"
              /\ pr.pc = "done"
              /\ pr.tenant # NoRow
              /\ pr.tenant.subscription_status = "active" )
            => pr.ret.current_usage = Cardinality(EventsOf(pr.tid, InPeriod))

\* C14 witness: a check has reported a count that differs from the live counter
C14_Witness ==
    \E p \in Procs :
        /\ procs[p].op = "check"
        /\ procs[p].pc = "done"
        /\ procs[p].tenant # NoRow
        /\ procs[p].tenant.subscription_status = "active"
        /\ procs[p].ret.current_usage # tenants[procs[p].tid].usage_count
        /\ procs[p].ret.current_usage > 0

\* the workers that have appended their event and not yet incremented the
\* counter of tenant t
Incrementing(t) == { p \in Procs : procs[p].pc = "lu_incr" /\ procs[p].tid = t }

\* C15: under concurrent calls, as long as no cycle has been closed, every
\* event in the ledger of a tenant is matched by one increment of its live
\* counter, made or still to be made by the worker that appended the event: when
\* k record calls have finished, the ledger holds k more events and the counter
\* is k higher.
C15_NoLostUpdate ==
    billing_history = <<>> =>
        \A t \in DOMAIN tenants :
            LET Every(e) == TRUE
            IN  tenants[t].usage_count + Cardinality(Incrementing(t))
                    = Cardinality(EventsOf(t, Every))

\* C15 witness: two record calls for one tenant are in flight together, both
\* events appended and neither increment made, and no cycle has been closed
C15_Witness ==
    /\ billing_history = <<>>
    /\ \E p, q \in Procs :
          /\ p # q
          /\ procs[p].op = "record" /\ procs[q].op = "record"
          /\ procs[p].tid = procs[q].tid
          /\ procs[p].pc = "lu_incr" /\ procs[q].pc = "lu_incr"

\* C16: under concurrent calls, every allow of the gate was decided on a ledger
\* count below rate_limit; the ceiling is soft only because the count can grow
\* between a worker's decision and the landing of its record (the witness).
C16_AllowDecidedBelowLimit ==
    \A p \in Procs :
        procs[p].ret.allowed => procs[p].ret.current_usage < procs[p].ret.limit

\* C16 witness: two concurrent requests have both passed the check on
\* usage = rate_limit - 1, and the ledger count of the current period key is
\* now above rate_limit
C16_Witness ==
    \E p, q \in Procs :
        /\ p # q
        /\ procs[p].op = "request" /\ procs[q].op = "request"
        /\ procs[p].tid = procs[q].tid
        /\ procs[p].ret.allowed /\ procs[q].ret.allowed
        /\ procs[p].ret.current_usage = procs[p].ret.limit - 1
        /\ procs[q].ret.current_usage = procs[q].ret.limit - 1
        /\ get_cycle_usage(procs[p].tid, get_current_billing_cycle)
              > tenants[procs[p].tid].rate_limit

\* a charge call that has returned the dict for a registered tenant
Charged(pr) == pr.op = "charge" /\ pr.pc = "done" /\ pr.tenant # NoRow

\* the fields of the dict returned when there is an overage
ChargeFields ==
    {"usage", "limit", "overage", "overage_blocks", "rate_per_block", "total_charge"}

\* the total of a returned dict: total_charge, or charge in the two-field dict
TotalOf(r) == IF "total_charge" \in DOMAIN r THEN r.total_charge ELSE r.charge

\* ceil(a / b) for a >= 0 and b > 0
CeilDiv(a, b) == IF a % b = 0 THEN a \div b ELSE (a \div b) + 1

\* C17: for every usage, rate_limit and overage_rate the dict returned by
\* calculate_overage_charges carries overage = max(0, usage - limit),
\* blocks = ceil(overage / 100) and total = blocks * overage_rate.
C17_ChargeIsBlockBased ==
    \A p \in Procs :
        LET pr == procs[p]
            overage == Max(0, pr.usage - pr.tenant.rate_limit)
            blocks == CeilDiv(overage, 100)
        IN  Charged(pr) =>
                /\ "overage" \in DOMAIN pr.ret /\ pr.ret.overage = overage
                /\ "overage_blocks" \in DOMAIN pr.ret /\ pr.ret.overage_blocks = blocks
                /\ TotalOf(pr.ret) = blocks * OverageRate(pr.tenant.plan_type)

\* C18: the overage returned by calculate_overage_charges is never negative,
\* and for the tenant's rate_limit and overage_rate no smaller usage has a
\* larger total than the one returned.
C18_ChargeMonotonic ==
    \A p \in Procs :
        LET pr == procs[p]
            rate == OverageRate(pr.tenant.plan_type)
        IN  Charged(pr) =>
                /\ pr.ret.overage >= 0
                /\ TotalOf(pr.ret) >= 0
                /\ \A u \in 0..pr.usage :
                       TotalOf(ChargeResult(u, pr.tenant.rate_limit, rate)) <= TotalOf(pr.ret)

\* C18 witness: a charge of two or more blocks at a positive rate, above the
\* totals of the smaller usages
C18_Witness ==
    \E p \in Procs :
        /\ Charged(procs[p])
        /\ "overage_blocks" \in DOMAIN procs[p].ret
        /\ procs[p].ret.overage_blocks >= 2
        /\ procs[p].ret.rate_per_block > 0
        /\ procs[p].ret.total_charge
              > TotalOf(ChargeResult(procs[p].usage - 100, procs[p].tenant.rate_limit,
                                     procs[p].ret.rate_per_block))

\* C19: when usage <= rate_limit, calculate_overage_charges returns a dict with
\* the same fields as when there is an overage, and overage, blocks and total
\* are 0.
C19_ZeroChargeSameShape ==
    \A p \in Procs :
        LET pr == procs[p]
        IN  (Charged(pr) /\ pr.usage <= pr.tenant.rate_limit) =>
                /\ DOMAIN pr.ret = ChargeFields
                /\ pr.ret.overage = 0
                /\ pr.ret.overage_blocks = 0
                /\ pr.ret.total_charge = 0

\* C20: in sequential use, every billing_history row has
\* overage = max(0, usage - rate_limit) for its own usage and the rate_limit of
\* its tenant, hence overage >= 0, and status pending; the row reconcile has
\* just appended carries the cycle_start and cycle_end of the window the call
\* found and is closing.
C20_RecordOverageAndWindow ==
    /\ \A i \in 1..Len(billing_history) :
          LET row == billing_history[i]
          IN  /\ row.overage = Max(0, row.usage - tenants[row.tenant_id].rate_limit)
              /\ row.overage >= 0
              /\ row.status = "pending"
    /\ \A p \in Procs :
          JustArchived(p) =>
              LET row == billing_history[Len(billing_history)]
              IN  /\ row.tenant_id = procs[p].tid
                  /\ row.cycle_start = procs[p].tenant.billing_start
                  /\ row.cycle_end = procs[p].tenant.billing_end
                  /\ row.overage = Max(0, row.usage - procs[p].tenant.rate_limit)
                  /\ procs[p].pc = "cru_update" =>
                        /\ row.cycle_start = tenants[procs[p].tid].billing_start
                        /\ row.cycle_end = tenants[procs[p].tid].billing_end

\* C20 witness: a cycle has been closed with usage above the rate limit
C20_Witness ==
    \E p \in Procs :
        /\ JustArchived(p)
        /\ billing_history[Len(billing_history)].overage > 0
        /\ billing_history[Len(billing_history)].usage
              > procs[p].tenant.rate_limit

\* a reconcile call that found the cycle expired and has written its closing
\* record: it is past the update, has returned, or has been left by an error
ClosedCycle(p) ==
    /\ procs[p].op = "reconcile"
    /\ procs[p].pc \in {"cru_delete", "done", "raised"}
    /\ procs[p].tenant # NoRow
    /\ CycleExpired(procs[p].now, procs[p].tenant)

\* C21: in sequential use, after reconcile has closed an expired cycle the
\* tenant's cycle_start is the instant `now` of the call, its cycle_end is the
\* advance of that cycle_start by the tenant's billing cycle kind, and the live
\* counter is 0.
C21_ClosedCycleAdvanced ==
    \A p \in Procs :
        ClosedCycle(p) =>
            LET row == tenants[procs[p].tid]
                nxt == get_next_billing_date(row.billing_start, row.billing_cycle)
            IN  /\ row.billing_start = procs[p].now
                /\ ~nxt.raised
                /\ row.billing_end = nxt.date
                /\ row.usage_count = 0

\* the statements of check_and_reset_usage after the expiry test
ClosingSteps == {"cru_usage", "cru_insert", "cru_update", "cru_delete"}

\* C22: a reconcile that reads the clock before the tenant's cycle_end is a
\* no-op: the call goes no further than the expiry test, and the tenant's
\* window and live counter, the billing history and the usage ledger are
\* unchanged by it.
C22_ReconcileBeforeEndIsNoOp ==
    [][ \A p \in Procs :
          ( /\ procs[p].pc = "cru_get"
            /\ procs'[p] # procs[p]
            /\ procs[p].tid \in DOMAIN tenants
            /\ now < tenants[procs[p].tid].billing_end )
          => /\ procs'[p].pc \notin ClosingSteps
             /\ tenants' = tenants
             /\ billing_history' = billing_history
             /\ usage_logs' = usage_logs ]_vars

\* C22 witness: a reconcile has returned from a call made before cycle_end,
\* with events in the ledger and a live counter above 0
C22_Witness ==
    \E p \in Procs :
        /\ procs[p].op = "reconcile"
        /\ procs[p].pc = "done"
        /\ procs[p].tenant # NoRow
        /\ procs[p].now < procs[p].tenant.billing_end
        /\ procs[p].tenant.usage_count > 0
        /\ tenants[procs[p].tid] = procs[p].tenant
        /\ Len(usage_logs) > 0

\* the last day of the month after month m of year y
LastDayOfNextMonth(y, m) ==
    IF m = 12 THEN monthrange(y + 1, 1) ELSE monthrange(y, m + 1)

\* C23: the monthly advance of a start date lies in the next calendar month
\* (January of the next year after December), on the day of the start when
\* the target month has that day and on the last day of the target month
\* otherwise: Jan 31 gives Feb 28 in a common year and Feb 29 in a leap year,
\* a 31st before a 30-day month gives the 30th.
C23_MonthlyAdvanceClamps ==
    \A p \in Procs :
        ( /\ procs[p].op = "init_billing"
          /\ procs[p].pc = "done"
          /\ tenants[procs[p].tid].billing_cycle = "monthly" )
        => LET s == tenants[procs[p].tid].billing_start
               e == tenants[procs[p].tid].billing_end
               y == YearOf(s)
               m == MonthOf(s)
               d == DayOf(s)
               last == LastDayOfNextMonth(y, m)
           IN  /\ s = procs[p].now
               /\ ValidDate(YearOf(e), MonthOf(e), DayOf(e))
               /\ m = 12 => (YearOf(e) = y + 1 /\ MonthOf(e) = 1 /\ DayOf(e) = d)
               /\ m < 12 => (YearOf(e) = y /\ MonthOf(e) = m + 1)
               /\ d <= last => DayOf(e) = d
               /\ d > last => DayOf(e) = last
               /\ s = 20230131 => e = 20230228
               /\ s = 20240131 => e = 20240229
               /\ (d = 31 /\ last = 30) => DayOf(e) = 30

\* C23 witness: a monthly window that starts on Jan 31 of a leap year has been
\* initialized and ends on Feb 29
C23_Witness ==
    \E p \in Procs :
        /\ procs[p].op = "init_billing"
        /\ procs[p].pc = "done"
        /\ tenants[procs[p].tid].billing_cycle = "monthly"
        /\ tenants[procs[p].tid].billing_start = 20240131
        /\ tenants[procs[p].tid].billing_end = 20240229

\* C24: the yearly advance of every valid start date, a Feb 29 of a leap year
\* included, succeeds and returns a valid date exactly one calendar year after
\* the start.
C24_YearlyAdvanceValid ==
    \A p \in Procs :
        ( /\ procs[p].op = "init_billing"
          /\ procs[p].tenant.billing_cycle = "yearly" )
        => /\ procs[p].pc = "done"
           /\ LET s == tenants[procs[p].tid].billing_start
                  e == tenants[procs[p].tid].billing_end
              IN  /\ s = procs[p].now
                  /\ ValidDate(YearOf(e), MonthOf(e), DayOf(e))
                  /\ YearOf(e) = YearOf(s) + 1
                  /\ toordinal(e) - toordinal(s) \in {365, 366}

\* C25: in sequential use, a step of a request appends to the usage ledger or
\* raises a live counter only after the gate has allowed the request and its
\* metered action has succeeded; a request that is denied or whose action
\* fails appends no event and raises no counter.
C25_RecordedOnlyAfterSuccess ==
    [][ \A p \in Procs :
          ( /\ procs'[p] # procs[p]
            /\ procs[p].op = "request"
            /\ \/ Len(usage_logs') > Len(usage_logs)
               \/ \E t \in DOMAIN tenants :
                      tenants'[t].usage_count > tenants[t].usage_count )
          => /\ procs[p].ret.allowed
             /\ procs[p].resp.status = 200 ]_vars

\* C26: in sequential use, a reconcile that is left by an error of the
\* cycle-advance arithmetic has persisted nothing: the billing history holds
\* no record of the window the call found, and the tenant's window and live
\* counter are the ones the call found.
C26_FailedAdvancePersistsNothing ==
    \A p \in Procs :
        ( /\ procs[p].pc = "raised"
          /\ procs[p].op # "init_billing"
          /\ procs[p].tenant # NoRow )
        => /\ RowsFor(procs[p].tid, procs[p].tenant) = {}
           /\ tenants[procs[p].tid] = procs[p].tenant

\* C27: with a store whose window UPDATE may fail after the closing record was
\* appended, a reconcile that has closed an expired cycle and returned, be it
\* the first call or the re-run of a failed one, leaves exactly one
\* billing_history record for the window it closed.
C27_RetryLeavesOneRecord ==
    \A p \in Procs :
        ( /\ procs[p].op = "reconcile"
          /\ procs[p].pc = "done"
          /\ procs[p].tenant # NoRow
          /\ CycleExpired(procs[p].now, procs[p].tenant) )
        => Cardinality(RowsFor(procs[p].tid, procs[p].tenant)) = 1

\* the usage_logs rows of tenant t, in ledger order
LedgerOf(t, logs) ==
    LET Own(e) == e.tenant_id = t
    IN  SelectSeq(logs, Own)

\* the billing_history rows of tenant t, in order
HistoryOf(t, history) ==
    LET Own(r) == r.tenant_id = t
    IN  SelectSeq(history, Own)

\* the number of events with period key `cycle` among `logs`
CountKey(logs, cycle) ==
    Cardinality({ i \in 1..Len(logs) : logs[i].billing_cycle = cycle })

\* C28: with two tenants, every step of a check, record, reconcile or charge
\* on tenant A leaves the row (live counter and window), the usage events and
\* the billing records of the other tenant B unchanged, and what the step
\* returns is made of A's own state only: the row it reads is A's row and the
\* usage it counts, reports, archives or charges is the count over A's own
\* events.
C28_TenantIsolation ==
    [][ \A p \in Procs :
          procs'[p] # procs[p] =>
            LET a == procs'[p].tid
                own == LedgerOf(a, usage_logs)
                counted == IF procs[p].pc = "cru_usage"
                           THEN CountKey(own, ArchivedCycle(procs[p].tenant))
                           ELSE CountKey(own, CycleKey(now))
            IN  /\ \A b \in DOMAIN tenants \ {a} :
                      /\ tenants'[b] = tenants[b]
                      /\ LedgerOf(b, usage_logs') = LedgerOf(b, usage_logs)
                      /\ HistoryOf(b, billing_history') = HistoryOf(b, billing_history)
                /\ procs'[p].tenant # NoRow => procs'[p].tenant.id = a
                /\ procs[p].pc \in {"cru_usage", "crl_usage", "coc_get"} =>
                      /\ procs'[p].usage = counted
                      /\ procs[p].pc = "crl_usage" =>
                            procs'[p].ret = RateLimitDecision(tenants[a], counted, now)
                      /\ procs[p].pc = "coc_get" =>
                            procs'[p].ret = ChargeResult(counted, tenants[a].rate_limit,
                                                         OverageRate(tenants[a].plan_type)) ]_vars

\* C28 witness: a check on one tenant has reported that tenant's own usage of
\* the period while the other tenant has more events in the same period and
\* a different live counter
C28_Witness ==
    \E p \in Procs :
        \E b \in DOMAIN tenants \ {procs[p].tid} :
            /\ procs[p].op = "check"
            /\ procs[p].pc = "done"
            /\ procs[p].tenant # NoRow
            /\ procs[p].ret.allowed
            /\ procs[p].ret.current_usage = 1
            /\ CountKey(LedgerOf(b, usage_logs), CycleKey(procs[p].now)) = 2
            /\ tenants[b].usage_count # tenants[procs[p].tid].usage_count

\* the age in days of an event at the instant n
AgeInDays(e, n) == toordinal(n) - toordinal(e.timestamp)

\* C29: with two tenants, every step that changes the usage ledger either
\* appends one event and leaves the stored events as they are, or is the
\* retention sweep of a reconcile that has just closed a cycle (its record is
\* in the billing history and the window has been advanced), and then the
\* events removed are those of the reconciled tenant that are more than 90
\* days older than the call's `now`; every other event stays, unmodified and
\* in order.
C29_LedgerAppendOnly ==
    [][ usage_logs' # usage_logs =>
          \/ /\ Len(usage_logs') = Len(usage_logs) + 1
             /\ SubSeq(usage_logs', 1, Len(usage_logs)) = usage_logs
          \/ \E p \in Procs :
                LET pr == procs[p]
                    Stays(e) == ~(e.tenant_id = pr.tid /\ AgeInDays(e, pr.now) > 90)
                IN  /\ pr.pc = "cru_delete"
                    /\ procs'[p] # pr
                    /\ CycleExpired(pr.now, pr.tenant)
                    /\ RowsFor(pr.tid, pr.tenant) # {}
                    /\ tenants[pr.tid].billing_start = pr.now
                    /\ usage_logs' = SelectSeq(usage_logs, Stays) ]_vars

\* C29 witness: a reconcile that closed a cycle with usage has returned, the
\* events of its tenant, more than 90 days old, are gone, and an event of the
\* other tenant of that age is still in the ledger
C29_Witness ==
    \E p \in Procs :
        /\ procs[p].op = "reconcile"
        /\ procs[p].pc = "done"
        /\ procs[p].tenant # NoRow
        /\ CycleExpired(procs[p].now, procs[p].tenant)
        /\ Len(billing_history) > 0
        /\ billing_history[Len(billing_history)].tenant_id = procs[p].tid
        /\ billing_history[Len(billing_history)].created_at = procs[p].now
        /\ billing_history[Len(billing_history)].usage > 0
        /\ LedgerOf(procs[p].tid, usage_logs) = <<>>
        /\ \E i \in 1..Len(usage_logs) :
              /\ usage_logs[i].tenant_id # procs[p].tid
              /\ AgeInDays(usage_logs[i], procs[p].now) > 90

\* C30: in sequential use, every event stored in the usage ledger carries the
\* period key of its own timestamp, also when the clock advances or a
\* reconciliation runs between the steps of the record that stored it.
C30_EventKeyMatchesTimestamp ==
    \A i \in 1..Len(usage_logs) :
        usage_logs[i].billing_cycle = CycleKey(usage_logs[i].timestamp)

\* a check of worker p has returned a rate_limit_exceeded deny, and the tenant
\* still has the window, the rate_limit and the active status the check read
DeniedInWindow(p) ==
    /\ procs[p].op = "check"
    /\ procs[p].pc = "done"
    /\ procs[p].tenant # NoRow
    /\ ~procs[p].ret.allowed
    /\ procs[p].ret.error = "rate_limit_exceeded"
    /\ tenants[procs[p].tid].billing_start = procs[p].tenant.billing_start
    /\ tenants[procs[p].tid].billing_end = procs[p].tenant.billing_end
    /\ tenants[procs[p].tid].rate_limit = procs[p].tenant.rate_limit
    /\ tenants[procs[p].tid].subscription_status = "active"

\* C31: in sequential use, once a check has denied a tenant with
\* rate_limit_exceeded, then as long as the clock is inside the same window a
\* check decided at the current instant denies too.
C31_DenyPersistsInWindow ==
    \A p \in Procs :
        (DeniedInWindow(p) /\ now < tenants[procs[p].tid].billing_end)
        => ~RateLimitDecision(tenants[procs[p].tid],
                              get_cycle_usage(procs[p].tid, get_current_billing_cycle),
                              now).allowed

\* the period key whose ledger count a billing_history row archived
ArchivedKeyOf(row) == CycleKey(row.cycle_start)

\* C32: in sequential use, the period keys archived by the cycle closes of
\* one tenant are pairwise distinct, so that no usage event is counted in the
\* usage of two billing_history records.
C32_ArchivedKeysDistinct ==
    \A i, j \in 1..Len(billing_history) :
        ( /\ i < j
          /\ billing_history[i].tenant_id = billing_history[j].tenant_id )
        => ArchivedKeyOf(billing_history[i]) # ArchivedKeyOf(billing_history[j])

\* C33: in sequential use, a record on an unknown tenant id appends no event,
\* and every event in the usage ledger is owned by a registered tenant.
C33_EventsOwnedByTenants ==
    \A i \in 1..Len(usage_logs) : usage_logs[i].tenant_id \in DOMAIN tenants

\* C34: for every plan and every overage >= 0 of a closed cycle, the
\* overage_charge the billing-history endpoint reports for the cycle equals
\* the block-based total ceil(overage / 100) * overage_rate of the
\* calculator for the same overage and rate.
C34_HistoryChargeIsBlockBased ==
    \A p \in Procs :
        (procs[p].op = "history" /\ procs[p].pc = "done") =>
            \A i \in DOMAIN procs[p].ret :
                LET entry == procs[p].ret[i]
                    rate == PlanOf(procs[p].tenant.plan_type).overage_rate
                IN  entry.overage_charge.num
                        = entry.overage_charge.den * (CeilDiv(entry.overage, 100) * rate)

====
